---- MODULE Spec2Model ----
(***************************************************************************)
(* heyi: a command-line tool that sends a prompt to a remote model.  The   *)
(* model covers the variable scanner/substituter (utils/variables.js), the *)
(* context assembler (utils/prompt.js), the option resolution of the       *)
(* preset command and the run of a command (bin/index.js).                 *)
(*                                                                         *)
(* A JavaScript string is a sequence of one-character strings, so that     *)
(* the regular expressions of the code are computed on the characters.     *)
(***************************************************************************)
EXTENDS Integers, Sequences, FiniteSets, TLC

VARIABLES
    pc,             \* the position of the run or of the call under study
    argv,           \* process.argv after the command: one entry per argument
    env,            \* process.env: HEYI_API_KEY, HEYI_MODEL, HEYI_CRAWLER
    presetContent,  \* what loadPreset returned
    flags,          \* the options commander parsed from argv
    options,        \* the options object of the run
    error,          \* the error thrown to the catch block, if any
    promptArgument, \* the argument of the prompt command, if one was given
    stdin,          \* what is piped into the process, if stdin is no terminal
    stdinContent,   \* what readStdin resolved with (null before)
    prompt,         \* the raw template (rawPrompt / presetContent.prompt)
    variables,      \* the variables object: its entries in property order
    extracted,      \* what extractVariables(prompt) returned
    undefinedVars,  \* what findUndefinedVariables(prompt, variables) returned
    replaced,       \* what replaceVariables(prompt, variables) returned
    contents,       \* the world: what reading a file or fetching a URL yields
    fileContents,   \* buildPrompt: the files read so far
    urlContents,    \* buildPrompt: the URLs fetched so far
    retrievals,     \* every retrieval started, in the order of the starts
    finalPrompt,    \* what buildPrompt returned
    outstanding,    \* the questions put to the user and not yet answered
    events,         \* the questions asked and the answers stored, in order
    browser,        \* the browser of the retrieval: none, open or closed
    chromeStep,     \* the position inside fetchUrlContentWithChrome
    completion,     \* what the try block of that function ended with
    requests,       \* the network requests issued, in order
    modelCalls,     \* the calls of generateObject, in order
    reply,          \* the object generateObject resolved with, if it did
    promptResult,   \* what executePrompt returned (result)
    stdout,         \* what console.log printed
    stderr,         \* what console.error printed
    exitCode        \* the exit code of the process, once it has ended

cliVars == <<argv, env, presetContent, flags, options, error>>
inputVars == <<promptArgument, stdin, stdinContent>>
callVars == <<inputVars, prompt, variables, extracted, undefinedVars, replaced>>
buildVars == <<contents, fileContents, urlContents, retrievals, finalPrompt>>
askVars == <<outstanding, events>>
fetchVars == <<browser, chromeStep, completion, requests>>
outVars == <<modelCalls, reply, promptResult, stdout, stderr, exitCode>>
vars == <<pc, cliVars, callVars, buildVars, askVars, fetchVars, outVars>>

----------------------------------------------------------------------------
(* Bounds of the model. *)

\* The number of pieces a template is assembled from.
MaxPieces == 2
\* The number of entries of a variables object.
MaxEntries == 2

----------------------------------------------------------------------------
(* Characters and optional values. *)

Lower == {"a", "b", "c", "d", "e", "f", "g", "h", "i", "j", "k", "l", "m", "n", "o", "p", "q", "r", "s", "t", "u", "v", "w", "x", "y", "z"}
Upper == {"A", "B", "C", "D", "E", "F", "G", "H", "I", "J", "K", "L", "M", "N", "O", "P", "Q", "R", "S", "T", "U", "V", "W", "X", "Y", "Z"}
Digits == {"0", "1", "2", "3", "4", "5", "6", "7", "8", "9"}

\* \s of a JavaScript regular expression, within the model's alphabet.
WhiteSpace == {" ", "\t", "\n"}
\* The line terminators "." does not match.
LineTerminators == {"\n"}

IsIdentStart(c) == c \in Lower \cup Upper \cup {"_"}
IsIdentChar(c) == c \in Lower \cup Upper \cup Digits \cup {"_"}

\* undefined / null, and a present value.
None == <<>>
Some(x) == <<x>>

Min(S) == CHOOSE x \in S : \A y \in S : x <= y
Max(S) == CHOOSE x \in S : \A y \in S : x >= y

Open == <<"{", "{">>
Close == <<"}", "}">>
Quote == <<"\"">>
Equals == <<"=">>

\* The attribute keyword of the pattern of the code: name="...".
NameAttr == <<"n", "a", "m", "e">>
\* The attribute keyword of the documented syntax: description="...".
DescriptionAttr == <<"d", "e", "s", "c", "r", "i", "p", "t", "i", "o", "n">>

\* The property names every plain object inherits from Object.prototype.
ObjectPrototypeKeys ==
    { <<"c", "o", "n", "s", "t", "r", "u", "c", "t", "o", "r">>,
      <<"_", "_", "d", "e", "f", "i", "n", "e", "G", "e", "t", "t", "e", "r", "_", "_">>,
      <<"_", "_", "d", "e", "f", "i", "n", "e", "S", "e", "t", "t", "e", "r", "_", "_">>,
      <<"h", "a", "s", "O", "w", "n", "P", "r", "o", "p", "e", "r", "t", "y">>,
      <<"_", "_", "l", "o", "o", "k", "u", "p", "G", "e", "t", "t", "e", "r", "_", "_">>,
      <<"_", "_", "l", "o", "o", "k", "u", "p", "S", "e", "t", "t", "e", "r", "_", "_">>,
      <<"i", "s", "P", "r", "o", "t", "o", "t", "y", "p", "e", "O", "f">>,
      <<"p", "r", "o", "p", "e", "r", "t", "y", "I", "s", "E", "n", "u", "m", "e", "r", "a", "b", "l", "e">>,
      <<"t", "o", "S", "t", "r", "i", "n", "g">>,
      <<"v", "a", "l", "u", "e", "O", "f">>,
      <<"_", "_", "p", "r", "o", "t", "o", "_", "_">>,
      <<"t", "o", "L", "o", "c", "a", "l", "e", "S", "t", "r", "i", "n", "g">> }

----------------------------------------------------------------------------
(* The regular expressions of utils/variables.js, on character sequences. *)

\* s has w at position p.
StartsAt(s, p, w) ==
    /\ p >= 1
    /\ p + Len(w) - 1 <= Len(s)
    /\ \A j \in 1..Len(w) : s[p + j - 1] = w[j]

\* \s* at p (greedy): the position after the white space.
SkipSpace(s, p) ==
    CHOOSE q \in p..(Len(s) + 1) :
        /\ \A r \in p..(q - 1) : s[r] \in WhiteSpace
        /\ (q = Len(s) + 1 \/ s[q] \notin WhiteSpace)

\* [a-zA-Z0-9_]* at p (greedy): the number of characters it takes.
IdentRun(s, p) ==
    CHOOSE n \in 0..(Len(s) - p + 1) :
        /\ \A j \in 0..(n - 1) : IsIdentChar(s[p + j])
        /\ (p + n > Len(s) \/ ~IsIdentChar(s[p + n]))

NoMatch == [ok |-> FALSE, start |-> 0, end |-> 0, name |-> <<>>, group |-> None]

\* attr\s*=\s*"([^"]*)" at p: end is the position after the closing quote.
AttributeAt(attr, s, p) ==
    LET p2 == SkipSpace(s, p + Len(attr))
        p3 == SkipSpace(s, p2 + 1)
        closing == {q \in (p3 + 1)..Len(s) : s[q] = "\""}
    IN  IF /\ StartsAt(s, p, attr)
           /\ StartsAt(s, p2, Equals)
           /\ StartsAt(s, p3, Quote)
           /\ closing # {}
        THEN [ok |-> TRUE, end |-> Min(closing) + 1,
              text |-> SubSeq(s, p3 + 1, Min(closing) - 1)]
        ELSE [ok |-> FALSE, end |-> p, text |-> <<>>]

\* \s*(?:attr\s*=\s*"([^"]*)")?\s*\}\} at p: the tail of both patterns.  The
\* group is tried first; without it the braces must follow the white space.
TailAt(attr, s, p) ==
    LET p1 == SkipSpace(s, p)
        g == AttributeAt(attr, s, p1)
    IN  IF g.ok /\ StartsAt(s, SkipSpace(s, g.end), Close)
        THEN [ok |-> TRUE, end |-> SkipSpace(s, g.end) + 2, group |-> Some(g.text)]
        ELSE IF StartsAt(s, p1, Close)
        THEN [ok |-> TRUE, end |-> p1 + 2, group |-> None]
        ELSE [ok |-> FALSE, end |-> p, group |-> None]

\* One match of \{\{\s*([a-zA-Z_][a-zA-Z0-9_]*)\s*(?:attr\s*=\s*"([^"]*)")?\s*\}\}
\* starting at i: the identifier is greedy and gives characters back until
\* the tail matches.
ExecAt(attr, s, i) ==
    LET p0 == SkipSpace(s, i + 2)
        good == {n \in 1..IdentRun(s, p0) : TailAt(attr, s, p0 + n).ok}
    IN  IF /\ StartsAt(s, i, Open)
           /\ p0 <= Len(s)
           /\ IsIdentStart(s[p0])
           /\ good # {}
        THEN [ok |-> TRUE, start |-> i, end |-> TailAt(attr, s, p0 + Max(good)).end,
              name |-> SubSeq(s, p0, p0 + Max(good) - 1),
              group |-> TailAt(attr, s, p0 + Max(good)).group]
        ELSE NoMatch

\* The loop of pattern.exec under the g flag: the leftmost match at or after
\* lastIndex, then on from its end.
RECURSIVE ExecAll(_, _, _)
ExecAll(attr, s, from) ==
    LET hits == {i \in from..Len(s) : ExecAt(attr, s, i).ok}
    IN  IF hits = {} THEN <<>>
        ELSE <<ExecAt(attr, s, Min(hits))>>
                 \o ExecAll(attr, s, ExecAt(attr, s, Min(hits)).end)

----------------------------------------------------------------------------
(* utils/variables.js *)

\* match[2] || null: an absent group and an empty description are both null.
DescriptionOf(m) == IF m.group = None \/ m.group = Some(<<>>) THEN None ELSE m.group

\* The body of the while loop: a name is pushed at its first match only.
RECURSIVE CollectVariables(_, _, _)
CollectVariables(matches, seen, out) ==
    IF matches = <<>> THEN out
    ELSE IF Head(matches).name \in seen
    THEN CollectVariables(Tail(matches), seen, out)
    ELSE CollectVariables(Tail(matches), seen \cup {Head(matches).name},
             Append(out, [name |-> Head(matches).name,
                          description |-> DescriptionOf(Head(matches))]))

extractVariables(p) == CollectVariables(ExecAll(NameAttr, p, 1), {}, <<>>)

\* Object.keys(variables), in property order.
Keys(vs) == [i \in 1..Len(vs) |-> vs[i].key]
OwnKeys(vs) == {vs[i].key : i \in 1..Len(vs)}

\* name in variables: an own property, or one inherited from Object.prototype.
HasProperty(vs, name) == name \in OwnKeys(vs) \/ name \in ObjectPrototypeKeys

IsUndefinedVariable(vs, v) == ~HasProperty(vs, v.name)

findUndefinedVariables(p, vs) ==
    SelectSeq(extractVariables(p), LAMBDA v : IsUndefinedVariable(vs, v))

\* The key is interpolated into the pattern unescaped: a character of the key
\* is a pattern of its own.  The keys of the model hold identifier characters
\* and ".", which matches any character but a line terminator.
KeyMatchesAt(key, s, p) ==
    /\ p + Len(key) - 1 <= Len(s)
    /\ \A j \in 1..Len(key) :
           IF key[j] = "." THEN s[p + j - 1] \notin LineTerminators
           ELSE s[p + j - 1] = key[j]

\* One match of \{\{\s*<key>\s*(?:name\s*=\s*"[^"]*")?\s*\}\} starting at i:
\* the leading \s* is greedy and gives white space back to the key.
ReplaceAt(key, s, i) ==
    LET first == i + 2
        good == {w \in 0..(SkipSpace(s, first) - first) :
                    /\ KeyMatchesAt(key, s, first + w)
                    /\ TailAt(NameAttr, s, first + w + Len(key)).ok}
    IN  IF StartsAt(s, i, Open) /\ good # {}
        THEN [ok |-> TRUE, start |-> i,
              end |-> TailAt(NameAttr, s, first + Max(good) + Len(key)).end]
        ELSE [ok |-> FALSE, start |-> 0, end |-> 0]

\* The replacement text of String.prototype.replace for a string value: $$,
\* $& and $' are patterns (the expression has no capturing group, so $1
\* stays as written; the alphabet of the model has no backquote).
RECURSIVE GetSubstitution(_, _, _, _, _)
GetSubstitution(value, j, s, start, end) ==
    IF j > Len(value) THEN <<>>
    ELSE IF value[j] = "$" /\ j < Len(value) /\ value[j + 1] = "$"
    THEN <<"$">> \o GetSubstitution(value, j + 2, s, start, end)
    ELSE IF value[j] = "$" /\ j < Len(value) /\ value[j + 1] = "&"
    THEN SubSeq(s, start, end - 1) \o GetSubstitution(value, j + 2, s, start, end)
    ELSE IF value[j] = "$" /\ j < Len(value) /\ value[j + 1] = "'"
    THEN SubSeq(s, end, Len(s)) \o GetSubstitution(value, j + 2, s, start, end)
    ELSE <<value[j]>> \o GetSubstitution(value, j + 1, s, start, end)

\* result.replace(pattern, value) under the g flag, from position from on.
RECURSIVE ReplaceAll(_, _, _, _)
ReplaceAll(key, value, s, from) ==
    LET hits == {i \in from..Len(s) : ReplaceAt(key, s, i).ok}
    IN  IF hits = {} THEN SubSeq(s, from, Len(s))
        ELSE SubSeq(s, from, Min(hits) - 1)
                 \o GetSubstitution(value, 1, s, Min(hits), ReplaceAt(key, s, Min(hits)).end)
                 \o ReplaceAll(key, value, s, ReplaceAt(key, s, Min(hits)).end)

\* for (const [variable, value] of Object.entries(variables)): one pass over
\* the whole current result per entry, in property order.
RECURSIVE ReplaceEntries(_, _)
ReplaceEntries(result, entries) ==
    IF entries = <<>> THEN result
    ELSE ReplaceEntries(ReplaceAll(Head(entries).key, Head(entries).value, result, 1),
                        Tail(entries))

replaceVariables(p, vs) == ReplaceEntries(p, vs)

----------------------------------------------------------------------------
(* The inputs of the calls of utils/variables.js. *)

Bare(id) == Open \o id \o Close
Spaced(id) == Open \o <<" ">> \o id \o <<" ">> \o Close
Annotated(attr, id, text) ==
    Open \o id \o <<" ">> \o attr \o Equals \o Quote \o text \o Quote \o Close

A == <<"a">>
B == <<"b">>
C == <<"c">>
Dot == <<".">>

Pieces ==
    { Bare(A), Bare(B), Bare(C), Spaced(A),
      Annotated(NameAttr, A, <<"D">>), Annotated(NameAttr, B, <<"E">>),
      Annotated(NameAttr, A, <<>>),
      Annotated(DescriptionAttr, A, <<"D">>),
      <<"x">> }

RECURSIVE Concat(_)
Concat(ss) == IF ss = <<>> THEN <<>> ELSE Head(ss) \o Concat(Tail(ss))

Templates == UNION {{Concat(ps) : ps \in [1..n -> Pieces]} : n \in 0..MaxPieces}

VariableKeys == {A, B, Dot}
VariableValues == { <<"V">>, <<>>, Bare(B), <<"$", "&">> }

Entries == [key : VariableKeys, value : VariableValues]

\* Objects: no key twice.
VariableMaps ==
    UNION {{vs \in [1..n -> Entries] :
               \A i, j \in 1..n : i # j => vs[i].key # vs[j].key} : n \in 0..MaxEntries}

----------------------------------------------------------------------------
(* The calls of utils/variables.js on every template and variables object. *)

\* The variables of the command line, at rest.
\* new Error(message, { cause }): the message in pieces, the cause if any.
Error(message, cause) == [message |-> message, cause |-> cause]

\* No browser has been launched.
NoBrowser == [state |-> "none", executablePath |-> None]

\* The ZodError of a schema's parse: the paths and messages of its issues.
ZodError(issues) == Error(<<"ZodError">> \o issues, None)

NoFlags == [model |-> None, format |-> None, schema |-> None, crawler |-> None,
            file |-> None, url |-> None, var |-> None, source |-> {}]
NoOptions == [model |-> None, format |-> None, schema |-> None, crawler |-> None,
              files |-> <<>>, urls |-> <<>>, vars |-> <<>>]
NoPreset == [prompt |-> <<>>, model |-> None, format |-> None, schema |-> None,
             crawler |-> None, files |-> <<>>, urls |-> <<>>]
NoEnv == [HEYI_API_KEY |-> None, HEYI_MODEL |-> None, HEYI_CRAWLER |-> None]

\* No context assembly has started.
BuildAtRest ==
    /\ contents = <<>>
    /\ fileContents = <<>> /\ urlContents = <<>>
    /\ retrievals = <<>>
    /\ finalPrompt = None

\* No question has been asked.
AskAtRest == outstanding = {} /\ events = <<>>

\* No browser has been launched and no request issued.
FetchAtRest ==
    /\ browser = NoBrowser /\ chromeStep = "idle"
    /\ completion = None
    /\ requests = <<>>

\* No argument, a terminal as stdin, nothing read.
InputAtRest ==
    /\ promptArgument = None
    /\ stdin = None
    /\ stdinContent = None

\* The model has not been called and nothing has been printed.
OutputAtRest ==
    /\ modelCalls = <<>>
    /\ reply = None
    /\ promptResult = None
    /\ stdout = <<>> /\ stderr = <<>>
    /\ exitCode = None

VarsInit ==
    /\ pc = "call"
    /\ argv = <<>> /\ env = NoEnv /\ presetContent = NoPreset
    /\ flags = NoFlags /\ options = NoOptions /\ error = None
    /\ prompt \in Templates
    /\ variables \in VariableMaps
    /\ extracted = <<>>
    /\ undefinedVars = <<>>
    /\ replaced = <<>>
    /\ BuildAtRest /\ AskAtRest /\ FetchAtRest /\ OutputAtRest /\ InputAtRest

ExtractVariablesCall ==
    /\ pc = "call"
    /\ extracted' = extractVariables(prompt)
    /\ pc' = "extracted"
    /\ UNCHANGED <<cliVars, buildVars, askVars, fetchVars, outVars, inputVars, prompt, variables, undefinedVars, replaced>>

FindUndefinedVariablesCall ==
    /\ pc = "extracted"
    /\ undefinedVars' = findUndefinedVariables(prompt, variables)
    /\ pc' = "found"
    /\ UNCHANGED <<cliVars, buildVars, askVars, fetchVars, outVars, inputVars, prompt, variables, extracted, replaced>>

ReplaceVariablesCall ==
    /\ pc = "found"
    /\ replaced' = replaceVariables(prompt, variables)
    /\ pc' = "replaced"
    /\ UNCHANGED <<cliVars, buildVars, askVars, fetchVars, outVars, inputVars, prompt, variables, extracted, undefinedVars>>

VarsNext == ExtractVariablesCall \/ FindUndefinedVariablesCall \/ ReplaceVariablesCall

SpecVars == VarsInit /\ [][VarsNext]_vars

----------------------------------------------------------------------------
(* Properties of utils/variables.js, under SpecVars. *)

ValueOf(vs, k) == vs[CHOOSE i \in 1..Len(vs) : vs[i].key = k].value

Contains(s, w) == \E q \in 1..Len(s) : StartsAt(s, q, w)

RECURSIVE Ascending(_)
Ascending(S) == IF S = {} THEN <<>> ELSE <<Min(S)>> \o Ascending(S \ {Min(S)})

IdentifierKeys(vs) == \A k \in OwnKeys(vs) : \A j \in 1..Len(k) : IsIdentChar(k[j])
PlainValues(vs) ==
    \A i \in 1..Len(vs) : \A j \in 1..Len(vs[i].value) : vs[i].value[j] \notin {"{", "}", "$"}

\* The text of a match.
TextOf(s, m) == SubSeq(s, m.start, m.end - 1)

\* Substitution in one pass and by the letter: every placeholder of s whose
\* name is a key becomes that key's value, and nothing put in is read again.
RECURSIVE SubstituteFrom(_, _, _, _)
SubstituteFrom(s, vs, matches, from) ==
    IF matches = <<>> THEN SubSeq(s, from, Len(s))
    ELSE SubSeq(s, from, Head(matches).start - 1)
             \o (IF Head(matches).name \in OwnKeys(vs)
                 THEN ValueOf(vs, Head(matches).name)
                 ELSE TextOf(s, Head(matches)))
             \o SubstituteFrom(s, vs, Tail(matches), Head(matches).end)
SubstituteOnce(s, vs) == SubstituteFrom(s, vs, ExecAll(NameAttr, s, 1), 1)

\* The placeholders of s whose name is no key of vs, as written, in order.
UnmappedPlaceholders(s, vs) ==
    LET ms == SelectSeq(ExecAll(NameAttr, s, 1), LAMBDA m : m.name \notin OwnKeys(vs))
    IN  [i \in 1..Len(ms) |-> TextOf(s, ms[i])]

\* The first occurrence of every name among the matches ms, in order, with
\* the description written there.
FirstOccurrences(ms) ==
    LET firsts == Ascending({i \in 1..Len(ms) : \A j \in 1..(i - 1) : ms[j].name # ms[i].name})
    IN  [i \in 1..Len(firsts) |->
            [name |-> ms[firsts[i]].name, description |-> ms[firsts[i]].group]]

\* C6: substitution performs no recursive expansion: when the value of a
\* variable holds the placeholder of another mapped variable, the text put in
\* stays as it is, whatever the order of the entries (identifier keys, values
\* without "$").
C6_NoRecursiveExpansion ==
    ( /\ pc = "replaced"
      /\ IdentifierKeys(variables)
      /\ \A i \in 1..Len(variables) : ~Contains(variables[i].value, <<"$">>)
      /\ \E i, j \in 1..Len(variables) :
            /\ i # j
            /\ Contains(variables[i].value, Bare(variables[j].key))
            /\ Contains(prompt, Bare(variables[i].key)) )
    => replaced = SubstituteOnce(prompt, variables)

\* C7: substitution leaves every placeholder whose name is no key of the
\* variables object exactly as written (values of plain text, which bring no
\* placeholder of their own).
C7_UnmappedPlaceholdersUntouched ==
    (pc = "replaced" /\ PlainValues(variables))
    => UnmappedPlaceholders(replaced, variables) = UnmappedPlaceholders(prompt, variables)

\* C8: extractVariables returns each distinct placeholder name of the
\* template once, in the order of first appearance, with the description
\* written at that first occurrence, for every template written in the
\* documented syntax, {{ name }} and {{ name description="text" }}.
C8_FirstOccurrenceWithDescription ==
    (pc = "extracted" /\ ~Contains(prompt, NameAttr \o Equals))
    => extracted = FirstOccurrences(ExecAll(DescriptionAttr, prompt, 1))

\* With the attribute the pattern of the code reads (name="text", an empty
\* text counting as none), extraction does keep the first occurrence of every
\* name, in order.
ExtractKeepsFirstOccurrences ==
    pc = "extracted" =>
        LET want == FirstOccurrences(ExecAll(NameAttr, prompt, 1))
        IN  /\ Len(extracted) = Len(want)
            /\ \A i \in 1..Len(want) :
                   /\ extracted[i].name = want[i].name
                   /\ extracted[i].description =
                          (IF want[i].description = Some(<<>>) THEN None
                           ELSE want[i].description)

\* C9: a placeholder in the annotated form {{ identifier description="text" }}
\* is extracted with that name and that description, and substitution puts
\* the mapped value in the place of the whole marker.
C9_AnnotatedFormRecognised ==
    \A id \in {A, B, C} : \A text \in {<<"D">>, <<"E">>} :
        (pc = "replaced" /\ prompt = Annotated(DescriptionAttr, id, text))
        => /\ extracted = <<[name |-> id, description |-> Some(text)]>>
           /\ (id \in OwnKeys(variables) /\ PlainValues(variables)
                  => replaced = ValueOf(variables, id))

\* The names of the placeholders extractVariables finds, and a map none of
\* whose values holds an opening pair of braces.
NamesOf(found) == {found[i].name : i \in 1..Len(found)}
NoValueOpens(vs) == \A i \in 1..Len(vs) : ~Contains(vs[i].value, Open)

----------------------------------------------------------------------------
(* bin/index.js: the options of a command.  A command-line argument is a   *)
(* sequence of lexemes: <<"--model">>, <<"--model", "=", "Y">> for          *)
(* --model=Y, <<"-m", "Y">> for -mY; a value is such a sequence too.        *)

DEFAULT_MODEL == <<"openai/gpt-4o-mini">>
DEFAULT_CRAWLER == <<"fetch">>
DEFAULT_FORMAT == <<"string">>

\* The .option(...) declarations of a command: every option takes a value.
CommandOptions ==
    { [attr |-> "model", long |-> "--model", short |-> "-m"],
      [attr |-> "format", long |-> "--format", short |-> "-f"],
      [attr |-> "schema", long |-> "--schema", short |-> "-s"],
      [attr |-> "crawler", long |-> "--crawler", short |-> "-c"],
      [attr |-> "file", long |-> "--file", short |-> ""],
      [attr |-> "url", long |-> "--url", short |-> ""],
      [attr |-> "var", long |-> "--var", short |-> ""] }

ScalarOptions == {"model", "format", "schema", "crawler"}

OptionNamed(name) == {o \in CommandOptions : name # "" /\ (o.long = name \/ o.short = name)}
LongNamed(name) == {o \in CommandOptions : o.long = name}
ShortNamed(name) == {o \in CommandOptions : name # "" /\ o.short = name}

\* The default values of the options: the third element of modelFlag,
\* formatFlag and crawlerFlag.
DefaultFlags(e) ==
    [NoFlags EXCEPT !.model = IF e.HEYI_MODEL = None THEN Some(DEFAULT_MODEL) ELSE e.HEYI_MODEL,
                    !.format = Some(DEFAULT_FORMAT),
                    !.crawler = IF e.HEYI_CRAWLER = None THEN Some(DEFAULT_CRAWLER)
                                ELSE e.HEYI_CRAWLER]

\* The argument parsers of --file and --url: previous ? [...previous, value] : [value].
CollectValue(previous, value) ==
    IF previous = None THEN Some(<<value>>) ELSE Some(Append(previous[1], value))

\* The argument parser of --var: value.split('='), the first part the name, the
\* rest joined again the value; an entry of the same name keeps its place.
\* (An empty name is rejected by the parser; no invocation below has one.)
CollectVar(previous, value) ==
    LET eqs == {i \in 1..Len(value) : value[i] = "="}
        variable == IF eqs = {} THEN value ELSE SubSeq(value, 1, Min(eqs) - 1)
        variableValue == IF eqs = {} THEN <<>> ELSE SubSeq(value, Min(eqs) + 1, Len(value))
        old == IF previous = None THEN <<>> ELSE previous[1]
    IN  IF variable \in OwnKeys(old)
        THEN Some([i \in 1..Len(old) |->
                      IF old[i].key = variable THEN [key |-> variable, value |-> variableValue]
                      ELSE old[i]])
        ELSE Some(Append(old, [key |-> variable, value |-> variableValue]))

\* An option event of commander: the value is stored, its source is the
\* command line.
SetOption(fl, attr, value) ==
    IF attr \in ScalarOptions
    THEN [fl EXCEPT ![attr] = Some(value), !.source = @ \cup {attr}]
    ELSE IF attr = "var"
    THEN [fl EXCEPT !.var = CollectVar(@, value), !.source = @ \cup {attr}]
    ELSE [fl EXCEPT ![attr] = CollectValue(@, value), !.source = @ \cup {attr}]

\* Command.parseOptions of commander on the arguments of the command: a flag
\* followed by its value (--model Y, -m Y), a long flag with = (--model=Y), a
\* short flag with its value attached (-mY).  What is left is an operand.
RECURSIVE ParseOptions(_, _)
ParseOptions(args, fl) ==
    IF args = <<>> THEN fl
    ELSE LET arg == Head(args)
         IN  IF Len(arg) = 1 /\ OptionNamed(arg[1]) # {} /\ Len(args) >= 2
             THEN ParseOptions(Tail(Tail(args)),
                      SetOption(fl, (CHOOSE o \in OptionNamed(arg[1]) : TRUE).attr, args[2]))
             ELSE IF Len(arg) >= 2 /\ ShortNamed(arg[1]) # {}
             THEN ParseOptions(Tail(args),
                      SetOption(fl, (CHOOSE o \in ShortNamed(arg[1]) : TRUE).attr,
                                SubSeq(arg, 2, Len(arg))))
             ELSE IF Len(arg) >= 2 /\ LongNamed(arg[1]) # {} /\ arg[2] = "="
             THEN ParseOptions(Tail(args),
                      SetOption(fl, (CHOOSE o \in LongNamed(arg[1]) : TRUE).attr,
                                SubSeq(arg, 3, Len(arg))))
             ELSE ParseOptions(Tail(args), fl)

\* utils/argv.js: an argument that is one of the names, or starts with a
\* name and "=".
hasFlag(flagNames) ==
    \E i \in 1..Len(argv) :
        \/ Len(argv[i]) = 1 /\ argv[i][1] \in flagNames
        \/ Len(argv[i]) >= 2 /\ argv[i][1] \in flagNames /\ argv[i][2] = "="

hasModelFlag == hasFlag({"--model", "-m"})
hasFormatFlag == hasFlag({"--format", "-f"})
hasSchemaFlag == hasFlag({"--schema", "-s"})
hasCrawlerFlag == hasFlag({"--crawler", "-c"})

Formats == {<<"string">>, <<"number">>, <<"object">>, <<"array">>}
Crawlers == {<<"fetch">>, <<"chrome">>}

\* data.schema is truthy.
Truthy(opt) == opt # None /\ opt # Some(<<>>)

\* A schema is asked for no format.
SchemaNeverRequired(data) == TRUE

\* The refinement of optionsSchema.
SchemaGiven(data) == data.format \notin {Some(<<"object">>), Some(<<"array">>)} \/ Truthy(data.schema)

\* optionsSchema.parse(data): the parsed object, or the ZodError thrown.
\* The refinement is run when the fields have been parsed without an issue.
optionsSchemaParse(data) ==
    LET fields == (IF data.model # None THEN <<>> ELSE <<"model: expected string">>)
                  \o (IF data.format # None /\ data.format[1] \in Formats THEN <<>>
                      ELSE <<"format: invalid option">>)
                  \o (IF data.crawler # None /\ data.crawler[1] \in Crawlers THEN <<>>
                      ELSE <<"crawler: invalid option">>)
        issues == IF fields # <<>> THEN fields
                  ELSE IF SchemaGiven(data) THEN <<>>
                  ELSE <<"schema: --schema or -s is required when format is object or array">>
    IN  IF issues = <<>>
        THEN [ok |-> TRUE, value |-> data, error |-> None]
        ELSE [ok |-> FALSE, value |-> NoOptions, error |-> Some(ZodError(issues))]

OrEmpty(opt) == IF opt = None THEN <<>> ELSE opt[1]

flagsToOptions(fl) ==
    optionsSchemaParse([model |-> fl.model, format |-> fl.format, schema |-> fl.schema,
                        crawler |-> fl.crawler, files |-> OrEmpty(fl.file),
                        urls |-> OrEmpty(fl.url), vars |-> OrEmpty(fl.var)])

\* has ? options.x : (presetContent.x ?? options.x)
MergeScalar(has, optionValue, presetValue) ==
    IF has THEN optionValue ELSE IF presetValue # None THEN presetValue ELSE optionValue

\* The reverse merge: the flag-supplied entries first.
MergeListFlagsFirst(presetList, optionList) == optionList \o presetList

\* [...presetContent.files, ...options.files]
MergeList(presetList, optionList) == presetList \o optionList

mergeOptionsWithPreset(opts, preset) ==
    optionsSchemaParse(
        [model |-> MergeScalar(hasModelFlag, opts.model, preset.model),
         format |-> MergeScalar(hasFormatFlag, opts.format, preset.format),
         schema |-> MergeScalar(hasSchemaFlag, opts.schema, preset.schema),
         crawler |-> MergeScalar(hasCrawlerFlag, opts.crawler, preset.crawler),
         files |-> MergeList(preset.files, opts.files),
         urls |-> MergeList(preset.urls, opts.urls),
         vars |-> opts.vars])

----------------------------------------------------------------------------
(* executePresetAction, lines 229-230: the options of the run. *)

\* flagsToOptions(flags), the inner call of line 230.
FlagsToOptions ==
    /\ pc = "preset:flagsToOptions"
    /\ IF flagsToOptions(flags).ok
       THEN /\ options' = flagsToOptions(flags).value
            /\ pc' = "preset:merge"
            /\ UNCHANGED error
       ELSE /\ error' = flagsToOptions(flags).error
            /\ pc' = "catch"
            /\ UNCHANGED options
    /\ UNCHANGED <<argv, env, presetContent, flags, callVars, buildVars, askVars, fetchVars, outVars>>

\* mergeOptionsWithPreset(..., presetContent), the outer call of line 230.
MergeOptionsWithPreset ==
    /\ pc = "preset:merge"
    /\ IF mergeOptionsWithPreset(options, presetContent).ok
       THEN /\ options' = mergeOptionsWithPreset(options, presetContent).value
            /\ pc' = "findUndefined"
            /\ UNCHANGED error
       ELSE /\ error' = mergeOptionsWithPreset(options, presetContent).error
            /\ pc' = "catch"
            /\ UNCHANGED options
    /\ UNCHANGED <<argv, env, presetContent, flags, callVars, buildVars, askVars, fetchVars, outVars>>

----------------------------------------------------------------------------
(* The invocations of the preset command. *)

\* The number of options given on the command line.
MaxArgs == 2

ArgGroups ==
    { << <<"--model">>, <<"Y">> >>,
      << <<"--model", "=", "Y">> >>,
      << <<"-m", "Y">> >>,
      << <<"--model">>, DEFAULT_MODEL >>,
      << <<"--format">>, <<"array">> >>,
      << <<"-s">>, <<"S">> >>,
      << <<"--crawler">>, <<"chrome">> >>,
      << <<"--file">>, <<"c.txt">> >>,
      << <<"--file">>, <<"-m">> >>,
      << <<"--url">>, <<"u">> >> }

Invocations == UNION {{Concat(gs) : gs \in [1..n -> ArgGroups]} : n \in 0..MaxArgs}

Environments ==
    { NoEnv,
      [HEYI_API_KEY |-> Some(<<"K">>), HEYI_MODEL |-> Some(<<"E">>),
       HEYI_CRAWLER |-> Some(<<"chrome">>)] }

Presets ==
    [prompt : {<<"x">>},
     model : {None, Some(<<"X">>)},
     format : {None, Some(<<"array">>)},
     schema : {None, Some(<<"T">>)},
     crawler : {None, Some(<<"fetch">>)},
     files : {<<>>, << <<"a.txt">>, <<"b.txt">> >>},
     urls : {<<>>, << <<"v">> >>}]

PresetInit ==
    /\ pc = "preset:flagsToOptions"
    /\ argv \in Invocations
    /\ env \in Environments
    /\ presetContent \in Presets
    /\ flags = ParseOptions(argv, DefaultFlags(env))
    /\ options = NoOptions
    /\ error = None
    /\ prompt = presetContent.prompt
    /\ variables = <<>> /\ extracted = <<>> /\ undefinedVars = <<>> /\ replaced = <<>>
    /\ BuildAtRest /\ AskAtRest /\ FetchAtRest /\ OutputAtRest /\ InputAtRest

PresetNext == FlagsToOptions \/ MergeOptionsWithPreset

SpecPreset == PresetInit /\ [][PresetNext]_vars

----------------------------------------------------------------------------
(* The resolved options of the preset command. *)

Resolved == pc = "findUndefined"

\* An option is passed when the option parser stored a value for it from the
\* command line.
Passed(f) == f \in flags.source

\* C1: in preset mode every scalar option resolves to the flag's value if the
\* flag was passed, otherwise to the preset's value if the preset defines one,
\* otherwise to the default.
C1_ScalarPrecedence ==
    Resolved =>
        \A f \in ScalarOptions :
            options[f] = IF Passed(f) THEN flags[f]
                         ELSE IF presetContent[f] # None THEN presetContent[f]
                         ELSE DefaultFlags(env)[f]

\* C2: a scalar flag that the user passed, in any form the option parser
\* accepts and whatever its value, wins over the preset's value.
C2_PassedFlagWins ==
    Resolved =>
        \A f \in ScalarOptions :
            (Passed(f) /\ presetContent[f] # None) => options[f] = flags[f]

\* C3: in preset mode the resolved files are the preset's files followed by
\* the flag-supplied files, and the resolved urls the preset's urls followed
\* by the flag-supplied urls, each in its given order.
C3_ListsConcatenated ==
    Resolved =>
        /\ options.files = presetContent.files \o OrEmpty(flags.file)
        /\ options.urls = presetContent.urls \o OrEmpty(flags.url)

C3_Witness ==
    /\ Resolved
    /\ presetContent.files = << <<"a.txt">>, <<"b.txt">> >>
    /\ flags.file = Some(<< <<"c.txt">> >>)
    /\ options.files = << <<"a.txt">>, <<"b.txt">>, <<"c.txt">> >>
    /\ presetContent.urls = << <<"v">> >>
    /\ flags.url = Some(<< <<"u">> >>)
    /\ options.urls = << <<"v">>, <<"u">> >>

----------------------------------------------------------------------------
(* buildPrompt: the prompt with the content of the files and URLs. *)

NewLine == <<"\n">>
SourcePrefix == <<"S", "o", "u", "r", "c", "e", ":", " ">>
ContextSeparator == <<"\n", "\n", "-", "-", "-", "\n", "\n">>
LabelOfOneSource == <<"C", "o", "n", "t", "e", "x", "t", " ", "f", "r", "o", "m", " ", "s", "o", "u", "r", "c", "e", ":">>
LabelOfSources == <<"C", "o", "n", "t", "e", "x", "t", " ", "f", "r", "o", "m", " ", "s", "o", "u", "r", "c", "e", "s", ":">>

\* isBrowserPath of utils/input.js: a crawler that starts with /, ./ or ../
isBrowserPath(crawler) ==
    \/ StartsAt(crawler, 1, <<"/">>)
    \/ StartsAt(crawler, 1, <<".", "/">>)
    \/ StartsAt(crawler, 1, <<".", ".", "/">>)

\* fetchUrlContent: the strategy that fetches the URLs.
shouldUseChrome(crawler) == crawler = <<"chrome">> \/ isBrowserPath(crawler)

\* The variables are substituted in the content of a source too.
ContextItemSubstituted(context) ==
    SourcePrefix \o context.path \o NewLine \o replaceVariables(context.content, options.vars)

\* `Source: ${path}\n${content}`
ContextItem(context) == SourcePrefix \o context.path \o NewLine \o context.content

\* Array.prototype.join
RECURSIVE Join(_, _)
Join(items, separator) ==
    IF items = <<>> THEN <<>>
    ELSE IF Len(items) = 1 THEN items[1]
    ELSE items[1] \o separator \o Join(Tail(items), separator)

\* A label that does not count the sources.
contextLabelPlural(n) == LabelOfSources

contextLabel(n) == IF n = 1 THEN LabelOfOneSource ELSE LabelOfSources

\* The context is appended whether or not there is a source.
CombineAlways(p, allContexts) ==
    p \o NewLine \o NewLine \o contextLabel(Len(allContexts)) \o NewLine
      \o Join([i \in 1..Len(allContexts) |-> ContextItem(allContexts[i])], ContextSeparator)

\* Lines 79-88: the prompt, the label and the items, or the prompt alone.
Combine(p, allContexts) ==
    IF Len(allContexts) > 0
    THEN p \o NewLine \o NewLine \o contextLabel(Len(allContexts)) \o NewLine
           \o Join([i \in 1..Len(allContexts) |-> ContextItem(allContexts[i])],
                   ContextSeparator)
    ELSE p

\* The result of a call: the value returned, or the error thrown.
Returned(value) == [ok |-> TRUE, value |-> value, error |-> None]
Threw(e) == [ok |-> FALSE, value |-> <<>>, error |-> Some(e)]

\* The failures of the world under the retrievals.
FileSystemError == Error(<<"ENOENT">>, None)
NetworkError == Error(<<"fetch failed">>, None)
LaunchError == Error(<<"Failed to launch the browser process">>, None)
PageError == Error(<<"Target closed">>, None)
NavigationError == Error(<<"net::ERR_NAME_NOT_RESOLVED">>, None)
TimeoutError == Error(<<"Navigation timeout of 30000 ms exceeded">>, None)
ContentError == Error(<<"Execution context was destroyed">>, None)

\* `HTTP ${response.status}: ${response.statusText}`
HttpError == Error(<<"HTTP ", "404", ": ", "Not Found">>, None)

\* A read that yields nothing where the file cannot be read.
readFileContentOrEmpty(filePath) ==
    IF contents[filePath] # None THEN Returned(contents[filePath][1]) ELSE Returned(<<>>)

\* A read that throws the failure of readFile as it is.
readFileContentRethrows(filePath) ==
    IF contents[filePath] # None THEN Returned(contents[filePath][1])
    ELSE Threw(FileSystemError)

\* readFileContent of utils/input.js.
readFileContent(filePath) ==
    IF contents[filePath] # None THEN Returned(contents[filePath][1])
    ELSE Threw(Error(<<"Failed to read file '">> \o filePath \o <<"'">>,
                     Some(FileSystemError)))

\* new URL(url): a URL starts with its protocol; anything else is a TypeError.
KnownProtocols == {"http:", "https:", "ftp:", "file:"}
ParseUrl(url) ==
    IF url # <<>> /\ url[1] \in KnownProtocols THEN Some([protocol |-> url[1]]) ELSE None

\* A validation that lets every URL pass.
validateUrlAnything(url) == None

\* validateUrl of utils/input.js: the error thrown, if any.
validateUrl(url) ==
    IF ParseUrl(url) = None
    THEN Some(Error(<<"Invalid URL format: ">> \o url, None))
    ELSE IF ParseUrl(url)[1].protocol \notin {"http:", "https:"}
    THEN Some(Error(<<"Invalid protocol '", ParseUrl(url)[1].protocol,
                      "'. Only http and https are supported.">>, None))
    ELSE None

\* The catch of fetchUrlContent, line 173.
FailedToFetch(url, cause) == Error(<<"Failed to fetch URL '">> \o url \o <<"'">>, Some(cause))

\* The browser after the try block has ended with c, were it closed only
\* after the content has been extracted.
BrowserAfterReturn(b, c) == [b EXCEPT !.state = IF c.ok THEN "closed" ELSE "open"]

\* The finally block of fetchUrlContentWithChrome: await browser.close()
BrowserAfterTry(b, c) == [b EXCEPT !.state = "closed"]

\* The source the loops of buildPrompt are at.
CurrentFile == options.files[Len(fileContents) + 1]
CurrentUrl == options.urls[Len(urlContents) + 1]

\* The second loop does not wait for the first.
FileLoopIgnored == TRUE

\* Line 72 is reached when the loop of lines 67-70 has ended: every file has
\* been read.
FileLoopEnded == Len(fileContents) = Len(options.files)

\* readFileContent for the next file of the first loop: the content is pushed,
\* or the read fails and buildPrompt throws.
ReadFileContent ==
    /\ pc = "buildPrompt"
    /\ Len(fileContents) < Len(options.files)
    /\ retrievals' = Append(retrievals, [kind |-> "file", source |-> CurrentFile])
    /\ IF readFileContent(CurrentFile).ok
       THEN /\ fileContents' = Append(fileContents,
                    [path |-> CurrentFile, content |-> readFileContent(CurrentFile).value])
            /\ UNCHANGED <<pc, error>>
       ELSE /\ error' = readFileContent(CurrentFile).error
            /\ pc' = "catch"
            /\ UNCHANGED fileContents
    /\ UNCHANGED <<argv, env, presetContent, flags, options, callVars, askVars, fetchVars, outVars>>
    /\ UNCHANGED <<contents, urlContents, finalPrompt>>

\* fetchUrlContent with the fetch crawler for the next URL of the second loop,
\* which starts when the first loop has ended: fetchUrlContentWithFetch as a
\* whole, its error wrapped by the catch of fetchUrlContent.
FetchUrlContentWithFetch ==
    /\ pc = "buildPrompt"
    /\ FileLoopEnded
    /\ Len(urlContents) < Len(options.urls)
    /\ ~shouldUseChrome(options.crawler[1])
    /\ retrievals' = Append(retrievals, [kind |-> "fetch", source |-> CurrentUrl])
    /\ IF validateUrl(CurrentUrl) # None
       THEN /\ error' = Some(FailedToFetch(CurrentUrl, validateUrl(CurrentUrl)[1]))
            /\ pc' = "catch"
            /\ UNCHANGED <<urlContents, requests>>
       ELSE /\ requests' = Append(requests, [via |-> "fetch", url |-> CurrentUrl])
            /\ IF contents[CurrentUrl] # None
               THEN /\ urlContents' = Append(urlContents,
                            [path |-> CurrentUrl, content |-> contents[CurrentUrl][1]])
                    /\ UNCHANGED <<pc, error>>
               ELSE /\ \E cause \in {NetworkError, HttpError} :
                          error' = Some(FailedToFetch(CurrentUrl, cause))
                    /\ pc' = "catch"
                    /\ UNCHANGED urlContents
    /\ UNCHANGED <<argv, env, presetContent, flags, options, callVars, askVars, outVars>>
    /\ UNCHANGED <<contents, fileContents, finalPrompt, browser, chromeStep, completion>>

\* fetchUrlContent with the chrome crawler, up to the launch of line 140.
LaunchBrowser ==
    /\ pc = "buildPrompt"
    /\ FileLoopEnded
    /\ Len(urlContents) < Len(options.urls)
    /\ shouldUseChrome(options.crawler[1])
    /\ chromeStep = "idle"
    /\ retrievals' = Append(retrievals, [kind |-> "chrome", source |-> CurrentUrl])
    /\ IF validateUrl(CurrentUrl) # None
       THEN /\ error' = Some(FailedToFetch(CurrentUrl, validateUrl(CurrentUrl)[1]))
            /\ pc' = "catch"
            /\ UNCHANGED <<browser, chromeStep>>
       ELSE \E launched \in BOOLEAN :
               IF launched
               THEN /\ browser' = [state |-> "open",
                                   executablePath |->
                                       IF isBrowserPath(options.crawler[1])
                                       THEN options.crawler ELSE None]
                    /\ chromeStep' = "newPage"
                    /\ UNCHANGED <<pc, error>>
               ELSE /\ error' = Some(FailedToFetch(CurrentUrl, LaunchError))
                    /\ pc' = "catch"
                    /\ UNCHANGED <<browser, chromeStep>>
    /\ UNCHANGED <<argv, env, presetContent, flags, options, callVars, askVars, outVars>>
    /\ UNCHANGED <<contents, fileContents, urlContents, finalPrompt, completion, requests>>

\* Line 142: const page = await browser.newPage()
NewPage ==
    /\ pc = "buildPrompt"
    /\ chromeStep = "newPage"
    /\ \E created \in BOOLEAN :
          IF created
          THEN chromeStep' = "goto" /\ UNCHANGED completion
          ELSE chromeStep' = "finally" /\ completion' = Some(Threw(PageError))
    /\ UNCHANGED <<pc, cliVars, callVars, buildVars, askVars, outVars, browser, requests>>

\* Line 145: await page.goto(url, { waitUntil: 'networkidle0', timeout: 30000 }).
\* The navigation fails, or the network is not idle in time and goto rejects
\* with a TimeoutError, or it succeeds.
Goto ==
    /\ pc = "buildPrompt"
    /\ chromeStep = "goto"
    /\ requests' = Append(requests, [via |-> "chrome", url |-> CurrentUrl])
    /\ IF contents[CurrentUrl] = None
       THEN chromeStep' = "finally" /\ completion' = Some(Threw(NavigationError))
       ELSE \E idle \in BOOLEAN :
               IF idle
               THEN chromeStep' = "content" /\ UNCHANGED completion
               ELSE chromeStep' = "finally" /\ completion' = Some(Threw(TimeoutError))
    /\ UNCHANGED <<pc, cliVars, callVars, buildVars, askVars, outVars, browser>>

\* Lines 146-154: the content of the page, sanitized and trimmed.
PageContent ==
    /\ pc = "buildPrompt"
    /\ chromeStep = "content"
    /\ chromeStep' = "finally"
    /\ \E extracted_ \in BOOLEAN :
          completion' = IF extracted_ THEN Some(Returned(contents[CurrentUrl][1]))
                        ELSE Some(Threw(ContentError))
    /\ UNCHANGED <<pc, cliVars, callVars, buildVars, askVars, outVars, browser, requests>>

\* Lines 155-157 and 171-174: the finally block, then the value is returned to
\* the loop of buildPrompt or the error is wrapped and thrown.
CloseBrowser ==
    /\ pc = "buildPrompt"
    /\ chromeStep = "finally"
    /\ browser' = BrowserAfterTry(browser, completion[1])
    /\ chromeStep' = "idle"
    /\ completion' = None
    /\ IF completion[1].ok
       THEN /\ urlContents' = Append(urlContents,
                    [path |-> CurrentUrl, content |-> completion[1].value])
            /\ UNCHANGED <<pc, error>>
       ELSE /\ error' = Some(FailedToFetch(CurrentUrl, completion[1].error[1]))
            /\ pc' = "catch"
            /\ UNCHANGED urlContents
    /\ UNCHANGED <<argv, env, presetContent, flags, options, callVars, askVars, outVars>>
    /\ UNCHANGED <<contents, fileContents, retrievals, finalPrompt, requests>>

\* Lines 78-88: both loops have ended, buildPrompt returns.
CombineContexts ==
    /\ pc = "buildPrompt"
    /\ Len(fileContents) = Len(options.files)
    /\ Len(urlContents) = Len(options.urls)
    /\ finalPrompt' = Some(Combine(replaced, fileContents \o urlContents))
    /\ pc' = "executePrompt"
    /\ UNCHANGED <<cliVars, callVars, askVars, fetchVars, outVars>>
    /\ UNCHANGED <<contents, fileContents, urlContents, retrievals>>

----------------------------------------------------------------------------
(* The calls of buildPrompt. *)

\* The number of files, and of URLs, of a call.
MaxSources == 2

FilePaths == {<<"a.txt">>, <<"b.txt">>}
UrlPaths == {<<"https:", "//u">>, <<"ftp:", "//v">>, <<"w">>}

\* What a retrieval yields: a failure, or the content.
Outcomes == {None, Some(<<>>), Some(<<"T">>)}

Range(s) == {s[i] : i \in 1..Len(s)}
SeqsUpTo(S, n) == UNION {[1..k -> S] : k \in 0..n}

BuildInit ==
    /\ pc = "buildPrompt"
    /\ argv = <<>> /\ env = NoEnv /\ presetContent = NoPreset /\ flags = NoFlags
    /\ error = None
    /\ \E files \in SeqsUpTo(FilePaths, MaxSources), urls \in SeqsUpTo(UrlPaths, MaxSources),
          crawler \in {<<"fetch">>, <<"chrome">>, <<"/", "bin/chromium">>} :
          /\ options = [NoOptions EXCEPT !.model = Some(DEFAULT_MODEL),
                                         !.format = Some(DEFAULT_FORMAT),
                                         !.crawler = Some(crawler),
                                         !.files = files, !.urls = urls]
          /\ contents \in [Range(files) \cup Range(urls) -> Outcomes]
    /\ prompt \in {<<>>, <<"p">>}
    /\ replaced = prompt
    /\ variables = <<>> /\ extracted = <<>> /\ undefinedVars = <<>>
    /\ fileContents = <<>> /\ urlContents = <<>> /\ retrievals = <<>>
    /\ finalPrompt = None
    /\ AskAtRest /\ FetchAtRest /\ OutputAtRest /\ InputAtRest

BuildNext ==
    \/ ReadFileContent
    \/ FetchUrlContentWithFetch
    \/ LaunchBrowser \/ NewPage \/ Goto \/ PageContent \/ CloseBrowser
    \/ CombineContexts

SpecBuild == BuildInit /\ [][BuildNext]_vars

----------------------------------------------------------------------------
(* The format of the assembled prompt. *)

Built == pc = "executePrompt" /\ finalPrompt # None

\* The sources of the call: all files, then all URLs.
ListedSources == options.files \o options.urls

\* 'Source: <label>' newline '<text>' for the entries from the i-th on, the
\* separator between two of them.
RECURSIVE EntriesFrom(_)
EntriesFrom(i) ==
    IF i > Len(ListedSources) THEN <<>>
    ELSE <<"S", "o", "u", "r", "c", "e", ":", " ">> \o ListedSources[i] \o <<"\n">>
           \o contents[ListedSources[i]][1]
           \o (IF i < Len(ListedSources) THEN <<"\n", "\n", "-", "-", "-", "\n", "\n">>
               ELSE <<>>)
           \o EntriesFrom(i + 1)

\* C4: with n >= 1 sources buildPrompt returns the prompt, a blank line, the
\* label line (singular for n = 1, plural for n > 1) and the entries, files
\* first then URLs, each list in its given order, joined by the separator.
C4_ContextFormat ==
    (Built /\ Len(ListedSources) >= 1) =>
        finalPrompt[1] = replaced \o <<"\n", "\n">>
            \o (IF Len(ListedSources) = 1 THEN <<"C", "o", "n", "t", "e", "x", "t", " ", "f", "r", "o", "m", " ", "s", "o", "u", "r", "c", "e", ":">>
                ELSE <<"C", "o", "n", "t", "e", "x", "t", " ", "f", "r", "o", "m", " ", "s", "o", "u", "r", "c", "e", "s", ":">>)
            \o <<"\n">> \o EntriesFrom(1)

C4_Witness ==
    /\ Built
    /\ options.files = << <<"b.txt">>, <<"a.txt">> >>
    /\ options.urls = << <<"https:", "//u">> >>
    /\ contents[<<"a.txt">>] = Some(<<"T">>)
    /\ replaced = <<"p">>
    /\ Len(finalPrompt[1]) > Len(replaced)
    /\ retrievals = << [kind |-> "file", source |-> <<"b.txt">>],
                       [kind |-> "file", source |-> <<"a.txt">>],
                       [kind |-> "fetch", source |-> <<"https:", "//u">>] >>

\* C5: with no file and no URL buildPrompt returns the prompt as it is and
\* starts no retrieval.
C5_NoSourcesNoChange ==
    (pc \in {"buildPrompt", "executePrompt"} /\ options.files = <<>> /\ options.urls = <<>>) =>
        /\ retrievals = <<>>
        /\ Built => finalPrompt[1] = replaced

C5_Witness ==
    /\ Built
    /\ options.files = <<>> /\ options.urls = <<>>
    /\ replaced = <<"p">>
    /\ finalPrompt = Some(<<"p">>)
    /\ retrievals = <<>>

----------------------------------------------------------------------------
(* executePromptAction: from the options to the assembled prompt. *)

\* options.vars[name] = value: a property that exists keeps its place, a new
\* one comes last.
SetVariable(vs, name, value) ==
    IF name \in OwnKeys(vs)
    THEN [i \in 1..Len(vs) |-> IF vs[i].key = name THEN [key |-> name, value |-> value]
                               ELSE vs[i]]
    ELSE Append(vs, [key |-> name, value |-> value])

\* What the user may type at a question.
Answers == {<<>>, <<"V">>, Bare(B)}

\* promptForVariable, line 59: the text of the question.
QuestionText(variableName, description) ==
    IF description # None /\ description[1] # <<>>
    THEN description[1] \o <<" ", "(">> \o variableName \o <<")", ":", " ">>
    ELSE variableName \o <<":", " ">>

IsAsk(e) == e.type = "ask"

\* The number of iterations of the loop of line 195 that have started.
Asked == Len(SelectSeq(events, IsAsk))

\* The loop goes on while a question is outstanding.
LoopRunsUnawaited(pending) == TRUE

\* The await of line 196: the loop is suspended until the answer has come.
LoopRuns(pending) == pending = {}

\* String.prototype.trim: the white space of both ends is removed.
RECURSIVE TrimStart(_)
TrimStart(s) ==
    IF s # <<>> /\ Head(s) \in WhiteSpace THEN TrimStart(Tail(s)) ELSE s

RECURSIVE TrimEnd(_)
TrimEnd(s) ==
    IF s # <<>> /\ s[Len(s)] \in WhiteSpace THEN TrimEnd(SubSeq(s, 1, Len(s) - 1)) ELSE s

Trim(s) == TrimStart(TrimEnd(s))

\* The lines readline emits for a text, a last line without a line feed
\* included, each followed by the line feed the handler of line 52 adds.
RECURSIVE WithLineFeeds(_)
WithLineFeeds(text) ==
    IF text = <<>> THEN <<>>
    ELSE IF \E i \in 1..Len(text) : text[i] = "\n"
    THEN LET i == Min({j \in 1..Len(text) : text[j] = "\n"})
         IN  SubSeq(text, 1, i) \o WithLineFeeds(SubSeq(text, i + 1, Len(text)))
    ELSE text \o <<"\n">>

\* readStdin of utils/input.js, lines 40-64, when the stream ends.
readStdin(text) == Trim(WithLineFeeds(text))

\* Line 60 of utils/input.js.
StdinError == Error(<<"Failed to read stdin">>, Some(Error(<<"EIO">>, None)))

\* Line 183.
PromptRequiredError ==
    Error(<<"A prompt is required either as an argument or via stdin">>, None)

\* !value of a string that may be absent: absent or empty.
Falsy(opt) == ~Truthy(opt)

\* Line 189: prompt ?? stdinContent
rawPrompt(argument, content) == IF argument # None THEN argument[1] ELSE content[1]

\* Lines 175-179: stdin is read to its end when it is no terminal.
ReadStdin ==
    /\ pc = "prompt:stdin"
    /\ IF stdin = None
       THEN /\ pc' = "prompt:require"
            /\ UNCHANGED <<stdinContent, error>>
       ELSE \E read \in BOOLEAN :
               IF read
               THEN /\ stdinContent' = Some(readStdin(stdin[1]))
                    /\ pc' = "prompt:require"
                    /\ UNCHANGED error
               ELSE /\ error' = Some(StdinError)
                    /\ pc' = "catch"
                    /\ UNCHANGED stdinContent
    /\ UNCHANGED <<argv, env, presetContent, flags, options, buildVars, askVars, fetchVars, outVars>>
    /\ UNCHANGED <<promptArgument, stdin, prompt, variables, extracted, undefinedVars, replaced>>

\* Lines 182-184: if (!prompt && !stdinContent) throw
RequirePrompt ==
    /\ pc = "prompt:require"
    /\ IF Falsy(promptArgument) /\ Falsy(stdinContent)
       THEN /\ error' = Some(PromptRequiredError)
            /\ pc' = "catch"
       ELSE /\ pc' = "prompt:flagsToOptions"
            /\ UNCHANGED error
    /\ UNCHANGED <<argv, env, presetContent, flags, options, callVars, buildVars, askVars, fetchVars, outVars>>

\* Line 189: const rawPrompt = prompt ?? stdinContent
ChooseRawPrompt ==
    /\ pc = "prompt:rawPrompt"
    /\ prompt' = rawPrompt(promptArgument, stdinContent)
    /\ pc' = "findUndefined"
    /\ UNCHANGED <<cliVars, buildVars, askVars, fetchVars, outVars>>
    /\ UNCHANGED <<inputVars, variables, extracted, undefinedVars, replaced>>

\* The statements after the loop do not wait for it.
FillSkipped == TRUE

\* The loop of lines 195-198 has ended: every undefined variable has been
\* asked for and every answer has been stored.
FillEnded == Asked = Len(undefinedVars) /\ outstanding = {}

\* Line 186: const options = flagsToOptions(flags)
BuildOptionsFromFlags ==
    /\ pc = "prompt:flagsToOptions"
    /\ IF flagsToOptions(flags).ok
       THEN /\ options' = flagsToOptions(flags).value
            /\ pc' = "prompt:rawPrompt"
            /\ UNCHANGED error
       ELSE /\ error' = flagsToOptions(flags).error
            /\ pc' = "catch"
            /\ UNCHANGED options
    /\ UNCHANGED <<argv, env, presetContent, flags, callVars, buildVars, askVars, fetchVars, outVars>>

\* Line 192: const undefinedVars = findUndefinedVariables(rawPrompt, options.vars)
FindUndefinedVariables ==
    /\ pc = "findUndefined"
    /\ extracted' = extractVariables(prompt)
    /\ undefinedVars' = findUndefinedVariables(prompt, options.vars)
    /\ pc' = "ask"
    /\ UNCHANGED <<cliVars, buildVars, askVars, fetchVars, outVars, inputVars, prompt, variables, replaced>>

\* Lines 195-196: the next iteration calls promptForVariable, which puts its
\* question on the terminal.
PromptForVariable ==
    /\ pc = "ask"
    /\ Asked < Len(undefinedVars)
    /\ LoopRuns(outstanding)
    /\ LET varInfo == undefinedVars[Asked + 1]
       IN  /\ outstanding' = outstanding \cup {varInfo.name}
           /\ events' = Append(events,
                  [type |-> "ask", name |-> varInfo.name,
                   value |-> QuestionText(varInfo.name, varInfo.description)])
    /\ UNCHANGED <<pc, cliVars, callVars, buildVars, fetchVars, outVars>>

\* Lines 196-197: the user answers a question, the promise resolves with the
\* answer and the iteration stores it.
StoreAnswer ==
    /\ pc = "ask"
    /\ \E name \in outstanding, answer \in Answers :
          /\ options' = [options EXCEPT !.vars = SetVariable(@, name, answer)]
          /\ outstanding' = outstanding \ {name}
          /\ events' = Append(events, [type |-> "store", name |-> name, value |-> answer])
    /\ UNCHANGED <<pc, argv, env, presetContent, flags, error, callVars, buildVars, fetchVars, outVars>>

\* Line 201: const userPrompt = replaceVariables(rawPrompt, options.vars), and
\* the call of buildPrompt of line 202.
ReplaceVariables ==
    /\ pc = "ask"
    /\ FillEnded
    /\ replaced' = replaceVariables(prompt, options.vars)
    /\ pc' = "buildPrompt"
    /\ UNCHANGED <<cliVars, buildVars, askVars, fetchVars, outVars, inputVars, prompt, variables, extracted, undefinedVars>>

----------------------------------------------------------------------------
(* executePrompt, and the end of a command. *)

\* Line 24 of src/index.js.
ApiKeyError ==
    Error(<<"HEYI_API_KEY environment variable is required. Set it via environment or .env file.">>,
          None)

\* The error of the provider, whatever it is.
ProviderError == Error(<<"AI_APICallError">>, None)

\* What eval throws for a schema string that is no zod expression.
SchemaEvalError == Error(<<"ReferenceError">>, None)

\* The schema strings that evaluate to a zod schema.
StringSchema == <<"z.string()">>
EmptyObjectSchema == <<"z.object({})">>
ObjectSchema == <<"z.object({k:z.string(),l:z.string()})">>
ValidSchemas == {StringSchema, EmptyObjectSchema, ObjectSchema}

\* getFormatSchema of utils/schema.js: the schema of the reply.
getFormatSchema(format, schemaString) ==
    IF format \in {<<"string">>, <<"number">>}
    THEN Returned(<<"z.object({result: z.">> \o format \o <<"()})">>)
    ELSE IF format \in {<<"object">>, <<"array">>}
    THEN IF schemaString # None /\ schemaString[1] \in ValidSchemas
         THEN Returned(<<"z.object({result: ">>
                       \o (IF format = <<"array">> THEN <<"z.array(">> \o schemaString[1] \o <<")">>
                           ELSE schemaString[1])
                       \o <<"})">>)
         ELSE Threw(SchemaEvalError)
    ELSE Threw(Error(<<"Can't create schema for unknown format '">> \o format \o <<"'">>, None))

\* The values of a reply.  A string is the sequence of its characters, a
\* number the sequence of the characters of its numeral, an array the
\* sequence of its items and an object the sequence of its properties, each
\* a record of a key and a string.  The schema of the reply tells which.

\* JSON.stringify of a string: the quotation mark, the reverse solidus and
\* the line feed are escaped.
RECURSIVE EscapeString(_)
EscapeString(s) ==
    IF s = <<>> THEN <<>>
    ELSE (IF Head(s) \in {"\"", "\\"} THEN <<"\\", Head(s)>>
          ELSE IF Head(s) = "\n" THEN <<"\\", "n">>
          ELSE <<Head(s)>>) \o EscapeString(Tail(s))

StringifyString(s) == <<"\"">> \o EscapeString(s) \o <<"\"">>

\* The indentation of JSON.stringify(value, null, 2) at a depth.
IndentOf(depth) == [i \in 1..(2 * depth) |-> " "]

\* JSON.stringify(value, null, 2) of an object of strings at a depth.
StringifyObject(properties, depth) ==
    IF properties = <<>> THEN <<"{", "}">>
    ELSE <<"{", "\n">>
         \o Join([i \in 1..Len(properties) |->
                    IndentOf(depth + 1) \o StringifyString(properties[i].key)
                    \o <<":", " ">> \o StringifyString(properties[i].value)],
                 <<",", "\n">>)
         \o <<"\n">> \o IndentOf(depth) \o <<"}">>

\* JSON.stringify(value, null, 2) of a value that conforms to a schema.
StringifyValue(schemaString, value, depth) ==
    IF schemaString = StringSchema THEN StringifyString(value)
    ELSE StringifyObject(value, depth)

\* JSON.stringify(value, null, 2) of an array of such values.
StringifyArray(schemaString, items) ==
    IF items = <<>> THEN <<"[", "]">>
    ELSE <<"[", "\n">>
         \o Join([i \in 1..Len(items) |->
                    IndentOf(1) \o StringifyValue(schemaString, items[i], 1)],
                 <<",", "\n">>)
         \o <<"\n", "]">>

\* Every format is serialised, the scalars too.
UnwrapSerialised(format, schemaString, object) ==
    IF format = <<"string">> THEN StringifyString(object.result)
    ELSE IF format = <<"number">> THEN object.result
    ELSE IF format = <<"object">> THEN StringifyValue(schemaString[1], object.result, 0)
    ELSE StringifyArray(schemaString[1], object.result)

\* The switch of lines 38-50 on the format, for a reply that conforms to the
\* schema getFormatSchema made of the schema string.
Unwrap(format, schemaString, object) ==
    IF format \in {<<"string">>, <<"number">>} THEN object.result
    ELSE IF format = <<"object">> THEN StringifyValue(schemaString[1], object.result, 0)
    ELSE StringifyArray(schemaString[1], object.result)

\* The values that conform to a schema string.
ValuesOf(schemaString) ==
    IF schemaString = StringSchema THEN {<<"r">>, <<"\"", "q">>}
    ELSE IF schemaString = EmptyObjectSchema THEN {<<>>}
    ELSE {<<[key |-> <<"k">>, value |-> <<"v">>], [key |-> <<"l">>, value |-> <<"w">>]>>}

\* The objects generateObject may return for a format and a schema string.
Replies(format, schemaString) ==
    IF format = <<"string">> THEN {[result |-> <<"r">>], [result |-> <<"\"", "q">>]}
    ELSE IF format = <<"number">>
    THEN {[result |-> <<"7">>], [result |-> <<"1", ".", "5">>], [result |-> <<"1", "e", "+", "2", "1">>]}
    ELSE IF format = <<"object">> THEN {[result |-> v] : v \in ValuesOf(schemaString[1])}
    ELSE {[result |-> <<>>]}
         \cup {[result |-> <<v>>] : v \in ValuesOf(schemaString[1])}
         \cup (IF schemaString[1] = StringSchema THEN {[result |-> << <<"r">>, <<"s">> >>]} ELSE {})

\* generateObject rejects and the call is made once more.
RejectedAndRetried(e) == [pc |-> "executePrompt", error |-> None]

\* generateObject rejects: nothing of executePrompt catches the error, which
\* arrives at the catch block of the command.
Rejected(e) == [pc |-> "catch", error |-> Some(e)]

\* The exit code of the process: 1 after the catch block, 0 otherwise.
exitCodeSwapped(caught) == IF caught THEN 0 ELSE 1
exitCodeAfter(caught) == IF caught THEN 1 ELSE 0

\* Lines 204-208 of the command and 19-36 of executePrompt: the key is
\* checked, the schema of the reply is made and generateObject is called.
ExecutePrompt ==
    /\ pc = "executePrompt"
    /\ IF env.HEYI_API_KEY = None \/ env.HEYI_API_KEY = Some(<<>>)
       THEN /\ error' = Some(ApiKeyError)
            /\ pc' = "catch"
            /\ UNCHANGED modelCalls
       ELSE IF ~getFormatSchema(options.format[1], options.schema).ok
       THEN /\ error' = getFormatSchema(options.format[1], options.schema).error
            /\ pc' = "catch"
            /\ UNCHANGED modelCalls
       ELSE /\ modelCalls' = Append(modelCalls,
                    [model |-> options.model[1], prompt |-> finalPrompt[1],
                     schema |-> getFormatSchema(options.format[1], options.schema).value])
            /\ pc' = "generateObject"
            /\ UNCHANGED error
    /\ UNCHANGED <<argv, env, presetContent, flags, options, callVars, buildVars, askVars>>
    /\ UNCHANGED <<fetchVars, reply, promptResult, stdout, stderr, exitCode>>

\* Lines 32-50 of executePrompt: generateObject resolves and the result is
\* unwrapped, or it rejects and the error leaves executePrompt as it is.
GenerateObjectSettles ==
    /\ pc = "generateObject"
    /\ \/ /\ \E object \in Replies(options.format[1], options.schema) :
                /\ reply' = Some(object)
                /\ promptResult' = Some(Unwrap(options.format[1], options.schema, object))
          /\ pc' = "print"
          /\ UNCHANGED error
       \/ /\ error' = Rejected(ProviderError).error
          /\ pc' = Rejected(ProviderError).pc
          /\ UNCHANGED <<reply, promptResult>>
    /\ UNCHANGED <<argv, env, presetContent, flags, options, callVars, buildVars, askVars>>
    /\ UNCHANGED <<fetchVars, modelCalls, stdout, stderr, exitCode>>

\* Line 210: console.log(result); the command has ended.
PrintResult ==
    /\ pc = "print"
    /\ stdout' = Append(stdout, promptResult[1])
    /\ exitCode' = Some(exitCodeAfter(FALSE))
    /\ pc' = "exited"
    /\ UNCHANGED <<cliVars, callVars, buildVars, askVars, fetchVars>>
    /\ UNCHANGED <<modelCalls, reply, promptResult, stderr>>

\* Lines 211-215: console.error(error); process.exit(1)
CatchError ==
    /\ pc = "catch"
    /\ stderr' = Append(stderr, error[1])
    /\ exitCode' = Some(exitCodeAfter(TRUE))
    /\ pc' = "exited"
    /\ UNCHANGED <<cliVars, callVars, buildVars, askVars, fetchVars>>
    /\ UNCHANGED <<modelCalls, reply, promptResult, stdout>>

----------------------------------------------------------------------------
(* The runs of the prompt command. *)

RunArgGroups ==
    { << <<"--var">>, <<"a", "=", "V">> >>,
      << <<"--var">>, <<"b", "=">> >>,
      << <<"--file">>, <<"a.txt">> >>,
      << <<"--url">>, <<"https:", "//u">> >>,
      << <<"--format">>, <<"array">> >>,
      << <<"-s">>, <<"z.string()">> >>,
      << <<"--crawler">>, <<"chrome">> >>,
      << <<"--crawler">>, <<".", "/", "chromium">> >> }

RunInvocations == UNION {{Concat(gs) : gs \in [1..n -> RunArgGroups]} : n \in 0..MaxArgs}

\* A placeholder name every plain object has as an inherited property.
InheritedName == <<"v", "a", "l", "u", "e", "O", "f">>

RunPieces ==
    { Bare(A), Bare(B), Bare(C), Annotated(NameAttr, B, <<"E">>), <<"x">>, Bare(InheritedName) }

RunTemplates == UNION {{Concat(ps) : ps \in [1..n -> RunPieces]} : n \in 1..MaxPieces}

\* What a retrieval of a run yields: a failure, a text, or a text that holds
\* a placeholder.
RunOutcomes == {None, Some(<<"T">>), Some(Bare(A))}

\* What is piped into a run without an argument.
RunStdin == {<<"x", "\n">>}

\* The key is set or not.
RunEnvironments == {NoEnv, [NoEnv EXCEPT !.HEYI_API_KEY = Some(<<"K">>)]}

\* The presets of the runs of the preset command.
RunPresets ==
    { [NoPreset EXCEPT !.prompt = Bare(A), !.format = Some(<<"array">>)],
      [NoPreset EXCEPT !.prompt = <<"x">>, !.schema = Some(<<"z.string()">>),
                       !.files = << <<"b.txt">> >>] }

Init ==
    /\ \/ /\ pc = "prompt:stdin"
          /\ presetContent = NoPreset
          /\ \/ /\ promptArgument \in {Some(t) : t \in RunTemplates}
                /\ stdin = None
             \/ /\ promptArgument = None
                /\ stdin \in {Some(t) : t \in RunStdin}
          /\ stdinContent = None
          /\ prompt = <<>>
       \/ /\ pc = "preset:flagsToOptions"
          /\ presetContent \in RunPresets
          /\ prompt = presetContent.prompt
          /\ InputAtRest
    /\ argv \in RunInvocations
    /\ env \in RunEnvironments
    /\ flags = ParseOptions(argv, DefaultFlags(env))
    /\ options = NoOptions
    /\ error = None
    /\ variables = <<>> /\ extracted = <<>> /\ undefinedVars = <<>> /\ replaced = <<>>
    /\ contents \in [Range(OrEmpty(flags.file)) \cup Range(OrEmpty(flags.url))
                       \cup Range(presetContent.files) \cup Range(presetContent.urls)
                     -> RunOutcomes]
    /\ fileContents = <<>> /\ urlContents = <<>> /\ retrievals = <<>>
    /\ finalPrompt = None
    /\ AskAtRest /\ FetchAtRest /\ OutputAtRest

Next ==
    \/ ReadStdin
    \/ RequirePrompt
    \/ BuildOptionsFromFlags
    \/ ChooseRawPrompt
    \/ FlagsToOptions
    \/ MergeOptionsWithPreset
    \/ FindUndefinedVariables
    \/ PromptForVariable
    \/ StoreAnswer
    \/ ReplaceVariables
    \/ ReadFileContent
    \/ FetchUrlContentWithFetch
    \/ LaunchBrowser \/ NewPage \/ Goto \/ PageContent \/ CloseBrowser
    \/ CombineContexts
    \/ ExecutePrompt
    \/ GenerateObjectSettles
    \/ PrintResult
    \/ CatchError

Spec == Init /\ [][Next]_vars

----------------------------------------------------------------------------
(* The questions of a run. *)

\* C10: the missing names are asked in the order in which they were found in
\* the template, at most one question is outstanding at any time, and every
\* answer, the empty string included, is in the variable map before the next
\* question is asked.
C10_SequentialQuestions ==
    /\ Cardinality(outstanding) <= 1
    /\ \A k \in 1..Len(events) :
          IF k % 2 = 1
          THEN /\ events[k].type = "ask"
               /\ (k + 1) \div 2 <= Len(undefinedVars)
               /\ events[k].name = undefinedVars[(k + 1) \div 2].name
          ELSE /\ events[k].type = "store"
               /\ events[k].name = events[k - 1].name
               /\ events[k].name \in OwnKeys(options.vars)
               /\ ValueOf(options.vars, events[k].name) = events[k].value

C10_Witness ==
    /\ pc = "ask"
    /\ prompt = Bare(B) \o Bare(A)
    /\ Len(events) = 3
    /\ events[1].type = "ask" /\ events[1].name = B
    /\ events[2] = [type |-> "store", name |-> B, value |-> <<>>]
    /\ events[3].type = "ask" /\ events[3].name = A
    /\ outstanding = {A}
    /\ ValueOf(options.vars, B) = <<>>

----------------------------------------------------------------------------
(* The failures of a run. *)

\* The sources whose retrieval has ended with their content.
Retrieved == fileContents \o urlContents

\* A retrieval has been started and has ended without its content.
RetrievalFailed == chromeStep = "idle" /\ Len(retrievals) > Len(Retrieved)

\* C11: when the retrieval of a listed file or URL fails the run is aborted:
\* no prompt is assembled, the model is not called and nothing is printed; and
\* an assembled prompt holds every listed source with the content the source
\* has.
C11_FailedRetrievalAborts ==
    /\ RetrievalFailed =>
          /\ pc \in {"catch", "exited"}
          /\ error # None
          /\ finalPrompt = None
          /\ modelCalls = <<>>
          /\ stdout = <<>>
    /\ finalPrompt # None =>
          /\ Len(Retrieved) = Len(ListedSources)
          /\ \A i \in 1..Len(ListedSources) :
                /\ Retrieved[i].path = ListedSources[i]
                /\ contents[ListedSources[i]] # None
                /\ Retrieved[i].content = contents[ListedSources[i]][1]

C11_Witness ==
    /\ pc = "exited"
    /\ options.files = << <<"a.txt">> >>
    /\ options.urls = << <<"https:", "//u">> >>
    /\ contents[<<"a.txt">>] = Some(<<"T">>)
    /\ contents[<<"https:", "//u">>] = None
    /\ Len(retrievals) = 2
    /\ Len(Retrieved) = 1
    /\ finalPrompt = None
    /\ modelCalls = <<>>
    /\ exitCode = Some(1)

----------------------------------------------------------------------------
(* The errors of the retrievals. *)

\* The retrieval that was started last.
LastRetrieval == retrievals[Len(retrievals)]

\* What makes a retrieval fail, before it is wrapped.
UnderlyingFailures ==
    { FileSystemError, NetworkError, HttpError, LaunchError, PageError, NavigationError,
      TimeoutError, ContentError }
    \cup {Error(<<"Invalid URL format: ">> \o url, None) : url \in UrlPaths}
    \cup {Error(<<"Invalid protocol '", p, "'. Only http and https are supported.">>, None) :
             p \in KnownProtocols}

\* C12: the error of a failed retrieval names its source, a file read by the
\* path of the file and a URL retrieval of either strategy by the URL, and
\* has the failure under it as its cause.
C12_RetrievalErrorNamesSource ==
    (RetrievalFailed /\ error # None) =>
        /\ Contains(error[1].message, LastRetrieval.source)
        /\ error[1].message[1] = IF LastRetrieval.kind = "file" THEN "Failed to read file '"
                                 ELSE "Failed to fetch URL '"
        /\ error[1].cause # None
        /\ error[1].cause[1] \in UnderlyingFailures
        /\ LastRetrieval.kind = "file" => error[1].cause[1] = FileSystemError

C12_Witness ==
    /\ pc = "catch"
    /\ LastRetrieval = [kind |-> "chrome", source |-> <<"https:", "//u">>]
    /\ error = Some(Error(<<"Failed to fetch URL '", "https:", "//u", "'">>,
                          Some(NavigationError)))
    /\ Len(fileContents) = 1
    /\ browser.state = "closed"

\* C13: the fetch crawler rejects a URL whose protocol is neither http nor
\* https with an error that names the protocol, and sends no request for it.
C13_SchemeRejectedBeforeRequest ==
    \A i \in 1..Len(retrievals) :
        ( /\ retrievals[i].kind = "fetch"
          /\ ParseUrl(retrievals[i].source) # None
          /\ ParseUrl(retrievals[i].source)[1].protocol \notin {"http:", "https:"} ) =>
            /\ i = Len(retrievals)
            /\ pc = "catch"
            /\ error # None /\ error[1].cause # None
            /\ error[1].cause[1].message[1] = "Invalid protocol '"
            /\ error[1].cause[1].message[2] = ParseUrl(retrievals[i].source)[1].protocol
            /\ \A k \in 1..Len(requests) : requests[k].url # retrievals[i].source

C13_Witness ==
    /\ pc = "catch"
    /\ options.crawler = Some(<<"fetch">>)
    /\ options.urls = << <<"https:", "//u">>, <<"ftp:", "//v">> >>
    /\ Len(retrievals) = 2
    /\ requests = << [via |-> "fetch", url |-> <<"https:", "//u">>] >>
    /\ error = Some(FailedToFetch(<<"ftp:", "//v">>,
                        Error(<<"Invalid protocol '", "ftp:",
                                "'. Only http and https are supported.">>, None)))

\* C14: with the chrome crawler a wait for the idle network that times out
\* does not make the retrieval fail: the try block ends with the content that
\* has been loaded, and no error has the timeout as its cause.
C14_TimeoutIsNotFatal ==
    /\ (chromeStep = "finally" /\ completion # None) => completion[1].error # Some(TimeoutError)
    /\ error # None => error[1].cause # Some(TimeoutError)

\* C15: a browser that has been launched is closed when the retrieval
\* returns or throws, whichever way the try block has ended.
C15_BrowserClosed ==
    /\ chromeStep = "idle" => browser.state # "open"
    /\ browser.state = "open" => pc = "buildPrompt"

C15_Witness ==
    /\ pc = "catch"
    /\ chromeStep = "idle"
    /\ browser.state = "closed"
    /\ error # None
    /\ error[1].cause = Some(PageError)

\* The crawler selects the strategy, and a path is the executable of the
\* browser that is launched.
StrategyFollowsCrawler ==
    /\ \A i \in 1..Len(retrievals) :
          retrievals[i].kind # "file" =>
              retrievals[i].kind = IF options.crawler[1] = <<"chrome">>
                                      \/ isBrowserPath(options.crawler[1])
                                   THEN "chrome" ELSE "fetch"
    /\ browser.state # "none" =>
          browser.executablePath = IF isBrowserPath(options.crawler[1]) THEN options.crawler
                                   ELSE None

----------------------------------------------------------------------------
(* The options and the end of a run. *)

\* The options of the run have been resolved, or their resolution has failed.
\* The run has come to the end of the resolution of its options: it has not
\* ended before, at the reading of stdin or at the check of the prompt.
PastResolution ==
    /\ pc \notin {"prompt:stdin", "prompt:require", "prompt:flagsToOptions",
               "preset:flagsToOptions", "preset:merge"}
    /\ error \notin {Some(StdinError), Some(PromptRequiredError)}

\* C16: a crawler that is a path (it starts with /, ./ or ../) is accepted by
\* the resolution of the options and reaches the retriever, where it selects
\* the chrome strategy; chrome selects it too and any other crawler selects
\* fetch.
C16_PathCrawlerReachesRetriever ==
    /\ ( /\ PastResolution
         /\ isBrowserPath(flags.crawler[1])
         /\ SchemaGiven(flags)
         /\ presetContent.format = None ) =>
            /\ options.crawler = flags.crawler
            /\ error = None \/ error[1].message[1] # "ZodError"
    /\ \A i \in 1..Len(retrievals) :
          retrievals[i].kind # "file" =>
              retrievals[i].kind = IF flags.crawler[1] = <<"chrome">>
                                      \/ isBrowserPath(flags.crawler[1])
                                   THEN "chrome" ELSE "fetch"

\* The format and the schema the run resolves to.
ResolvedFormat == MergeScalar(hasFormatFlag, flags.format, presetContent.format)
ResolvedSchema == MergeScalar(hasSchemaFlag, flags.schema, presetContent.schema)

\* C17: a run whose resolved format is object or array and whose resolved
\* schema is absent fails with the error of the options, and the model is
\* never called.
C17_SchemaRequired ==
    (ResolvedFormat \in {Some(<<"object">>), Some(<<"array">>)} /\ ~Truthy(ResolvedSchema)) =>
        /\ modelCalls = <<>>
        /\ promptResult = None
        /\ PastResolution =>
              /\ pc \in {"catch", "exited"}
              /\ error # None
              /\ error[1].message[1] = "ZodError"

C17_Witness ==
    /\ pc = "exited"
    /\ presetContent.format = Some(<<"array">>)
    /\ presetContent.schema = None
    /\ argv = <<>>
    /\ error = Some(ZodError(
           <<"schema: --schema or -s is required when format is object or array">>))
    /\ stderr = <<error[1]>>
    /\ modelCalls = <<>>
    /\ exitCode = Some(1)

\* C18: without HEYI_API_KEY the run fails before any retrieval and before
\* any call of the model: no file is read, no URL is fetched and no browser
\* is launched.
C18_NoKeyNoRetrieval ==
    env.HEYI_API_KEY = None =>
        /\ retrievals = <<>>
        /\ requests = <<>>
        /\ browser.state = "none"
        /\ modelCalls = <<>>

\* C19: the model is called at most once in a run, and when the call fails
\* its error arrives unchanged at the top level, which ends the run.
C19_SingleProviderCall ==
    /\ Len(modelCalls) <= 1
    /\ (Len(modelCalls) = 1 /\ promptResult = None /\ pc # "generateObject") =>
          /\ pc \in {"catch", "exited"}
          /\ error = Some(ProviderError)
          /\ pc = "exited" => (stderr = <<ProviderError>> /\ exitCode = Some(1))

C19_Witness ==
    /\ pc = "exited"
    /\ Len(modelCalls) = 1
    /\ Len(retrievals) = 2
    /\ error = Some(ProviderError)
    /\ stderr = <<ProviderError>>
    /\ stdout = <<>>
    /\ exitCode = Some(1)

\* C20: a run ends either with every step done, the result printed once and
\* the exit code 0, or with a failed step, nothing printed, the error on the
\* error stream and the exit code 1.
C20_TwoEndings ==
    /\ exitCode # None <=> pc = "exited"
    /\ Len(stdout) <= 1
    /\ stdout # <<>> => (error = None /\ promptResult # None /\ stdout = <<promptResult[1]>>)
    /\ pc = "exited" =>
          \/ /\ exitCode = Some(0)
             /\ error = None
             /\ Len(stdout) = 1
             /\ stderr = <<>>
             /\ Len(modelCalls) = 1
             /\ finalPrompt # None
          \/ /\ exitCode = Some(1)
             /\ error # None
             /\ stdout = <<>>
             /\ stderr = <<error[1]>>

C20_Witness ==
    /\ pc = "exited"
    /\ exitCode = Some(0)
    /\ stdout = << <<"[", "\n", " ", " ", "\"", "r", "\"", ",", "\n", " ", " ", "\"", "s", "\"",
                     "\n", "]">> >>
    /\ stderr = <<>>
    /\ Len(events) = 2

\* C23: in one call of buildPrompt the sources are retrieved one at a time
\* in the order of the lists, the files first and then the URLs: a retrieval
\* starts when the one before it has completed, no URL is retrieved before
\* the last file has been read, and each listed source is retrieved once.
C23_SequentialRetrieval ==
    /\ Len(retrievals) <= Len(ListedSources)
    /\ \A i \in 1..Len(retrievals) :
          /\ retrievals[i].source = ListedSources[i]
          /\ retrievals[i].kind = "file" <=> i <= Len(options.files)
    /\ Len(retrievals) <= Len(fileContents) + Len(urlContents) + 1
    /\ Len(retrievals) = Len(fileContents) + Len(urlContents) + 1
          => (chromeStep # "idle" \/ pc \in {"catch", "exited"})
    /\ Len(retrievals) > Len(options.files) => Len(fileContents) = Len(options.files)
    /\ Built => /\ Len(retrievals) = Len(ListedSources)
                /\ [i \in 1..Len(retrievals) |-> retrievals[i].source] = ListedSources

\* Two files, and a URL listed twice and retrieved twice by the browser, have
\* been retrieved and the prompt is built.
C23_Witness ==
    /\ Built
    /\ options.files = << <<"b.txt">>, <<"a.txt">> >>
    /\ options.urls = << <<"https:", "//u">>, <<"https:", "//u">> >>
    /\ retrievals = << [kind |-> "file", source |-> <<"b.txt">>],
                       [kind |-> "file", source |-> <<"a.txt">>],
                       [kind |-> "chrome", source |-> <<"https:", "//u">>],
                       [kind |-> "chrome", source |-> <<"https:", "//u">>] >>

----------------------------------------------------------------------------
(* executePrompt called on its own: any format, with and without a schema  *)
(* string, with and without the key.                                        *)

\* A format executePrompt does not know.
UnknownFormat == <<"text">>

ExecuteFormats == Formats \cup {UnknownFormat}
ExecuteSchemas == {None, Some(<<"nonsense">>)} \cup {Some(t) : t \in ValidSchemas}
ExecutePrompts == {<<"x">>, Bare(A)}

ExecuteInit ==
    /\ pc = "executePrompt"
    /\ argv = <<>> /\ presetContent = NoPreset /\ flags = NoFlags /\ error = None
    /\ env \in RunEnvironments
    /\ \E format \in ExecuteFormats : \E schemaString \in ExecuteSchemas :
          options = [NoOptions EXCEPT !.model = Some(DEFAULT_MODEL),
                                      !.format = Some(format),
                                      !.schema = schemaString]
    /\ prompt = <<>> /\ variables = <<>> /\ extracted = <<>>
    /\ undefinedVars = <<>> /\ replaced = <<>>
    /\ contents = <<>> /\ fileContents = <<>> /\ urlContents = <<>> /\ retrievals = <<>>
    /\ \E p \in ExecutePrompts : finalPrompt = Some(p)
    /\ AskAtRest /\ FetchAtRest /\ OutputAtRest /\ InputAtRest

ExecuteNext == ExecutePrompt \/ GenerateObjectSettles

SpecExecute == ExecuteInit /\ [][ExecuteNext]_vars

\* The text JSON.stringify(value, null, 2) gives for the values of the
\* replies, written out.
PrettyPrinted(format, schemaString, value) ==
    IF format = <<"object">>
    THEN IF schemaString = StringSchema
         THEN (IF value = <<"r">> THEN <<"\"", "r", "\"">>
               ELSE <<"\"", "\\", "\"", "q", "\"">>)
         ELSE IF schemaString = EmptyObjectSchema THEN <<"{", "}">>
         ELSE <<"{", "\n",
                " ", " ", "\"", "k", "\"", ":", " ", "\"", "v", "\"", ",", "\n",
                " ", " ", "\"", "l", "\"", ":", " ", "\"", "w", "\"", "\n",
                "}">>
    ELSE IF value = <<>> THEN <<"[", "]">>
    ELSE IF schemaString = StringSchema
    THEN (IF value = << <<"r">> >> THEN <<"[", "\n", " ", " ", "\"", "r", "\"", "\n", "]">>
          ELSE IF value = << <<"\"", "q">> >>
          THEN <<"[", "\n", " ", " ", "\"", "\\", "\"", "q", "\"", "\n", "]">>
          ELSE <<"[", "\n", " ", " ", "\"", "r", "\"", ",", "\n",
                 " ", " ", "\"", "s", "\"", "\n", "]">>)
    ELSE IF schemaString = EmptyObjectSchema
    THEN <<"[", "\n", " ", " ", "{", "}", "\n", "]">>
    ELSE <<"[", "\n",
           " ", " ", "{", "\n",
           " ", " ", " ", " ", "\"", "k", "\"", ":", " ", "\"", "v", "\"", ",", "\n",
           " ", " ", " ", " ", "\"", "l", "\"", ":", " ", "\"", "w", "\"", "\n",
           " ", " ", "}", "\n",
           "]">>

\* C22: the result of executePrompt is the field result of the reply: for
\* the formats string and number the scalar as it is, for the formats object
\* and array the value as JSON indented by two spaces, the whole sequence for
\* an array.
C22_UnwrappedByFormat ==
    /\ promptResult # None <=> reply # None
    /\ promptResult # None =>
          /\ options.format[1] \in Formats
          /\ DOMAIN reply[1] = {"result"}
          /\ IF options.format[1] \in {<<"string">>, <<"number">>}
             THEN promptResult[1] = reply[1].result
             ELSE promptResult[1]
                    = PrettyPrinted(options.format[1], options.schema[1], reply[1].result)

\* A reply for the format array: one object of two properties
\* inside an array, printed on five lines.
C22_Witness ==
    /\ pc = "print"
    /\ options.format = Some(<<"array">>)
    /\ options.schema = Some(ObjectSchema)
    /\ reply = Some([result |-> << <<[key |-> <<"k">>, value |-> <<"v">>],
                                    [key |-> <<"l">>, value |-> <<"w">>]>> >>])
    /\ Len(promptResult[1]) = 38

----------------------------------------------------------------------------
(* The order of the steps of a run. *)

\* The raw template has been obtained: the preset has been loaded, or stdin
\* has been read and the check of the prompt has passed.
TemplateObtained == presetContent # NoPreset \/ pc \notin {"prompt:stdin", "prompt:require"}

\* C24: the steps of a run happen in this order, each after the one before
\* has ended: the raw template is obtained, the options are resolved, the
\* template is scanned and the missing variables are asked for, the variables
\* are substituted, the prompt is assembled with the content of the sources,
\* the model is called, the result is printed.  The model is called when
\* every missing variable has been answered and every source has been
\* retrieved, and with the assembled prompt.
C24_StepOrder ==
    /\ options # NoOptions => TemplateObtained
    /\ events # <<>> =>
          /\ options # NoOptions
          /\ presetContent = NoPreset => prompt = rawPrompt(promptArgument, stdinContent)
          /\ extracted = extractVariables(prompt)
    /\ (retrievals # <<>> \/ finalPrompt # None) =>
          /\ outstanding = {}
          /\ Len(events) = 2 * Len(undefinedVars)
          /\ \A i \in 1..Len(undefinedVars) : undefinedVars[i].name \in OwnKeys(options.vars)
          /\ replaced = replaceVariables(prompt, options.vars)
    /\ finalPrompt # None =>
          /\ Len(retrievals) = Len(ListedSources)
          /\ Len(Retrieved) = Len(ListedSources)
          /\ finalPrompt[1] = Combine(replaced, Retrieved)
    /\ modelCalls # <<>> =>
          /\ finalPrompt # None
          /\ modelCalls[1].prompt = finalPrompt[1]
    /\ reply # None => modelCalls # <<>>
    /\ stdout # <<>> => (reply # None /\ promptResult # None)

\* A run with one missing variable, a file and a URL has been through every
\* step.
C24_Witness ==
    /\ pc = "exited"
    /\ Len(modelCalls) = 1 /\ promptResult # None
    /\ promptArgument = Some(Bare(A))
    /\ options.files = << <<"a.txt">> >>
    /\ options.urls = << <<"https:", "//u">> >>
    /\ events = << [type |-> "ask", name |-> A, value |-> <<"a", ":", " ">>],
                   [type |-> "store", name |-> A, value |-> <<"V">>] >>
    /\ Len(retrievals) = 2
    /\ modelCalls[1].prompt = Combine(<<"V">>, << [path |-> <<"a.txt">>, content |-> <<"T">>],
                                                  [path |-> <<"https:", "//u">>, content |-> <<"T">>] >>)
    /\ stdout = <<promptResult[1]>>
    /\ exitCode = Some(0)

----------------------------------------------------------------------------
(* The variables after the questions. *)

\* The entries given with --var: options.vars before the loop of questions.
SuppliedVars == OrEmpty(flags.var)

\* The names the questions have asked for.
AskedNames == {events[k].name : k \in {j \in 1..Len(events) : events[j].type = "ask"}}

\* C25: the questions only add entries to the variable map: they ask for
\* exactly the names the template refers to that are absent from the map, no
\* name twice, and afterwards every entry given with --var has the value it
\* was given.
C25_FillOnlyAdds ==
    pc = "buildPrompt" =>
        /\ AskedNames = NamesOf(extractVariables(prompt)) \ OwnKeys(SuppliedVars)
        /\ Cardinality(AskedNames) = Asked
        /\ OwnKeys(options.vars) = OwnKeys(SuppliedVars) \cup AskedNames
        /\ \A i \in 1..Len(SuppliedVars) :
              ValueOf(options.vars, SuppliedVars[i].key) = SuppliedVars[i].value

----------------------------------------------------------------------------
(* The schema rule of a run of the preset command. *)

\* The error of the refinement of optionsSchema.
SchemaRequiredError ==
    ZodError(<<"schema: --schema or -s is required when format is object or array">>)

\* C26: in a run of the preset command the rule that the formats object and
\* array need a schema is decided on the merged options: the run is rejected
\* for a missing schema only when the merged options have none, wherever the
\* format and the schema came from.
C26_SchemaRuleOnMergedOptions ==
    error = Some(SchemaRequiredError) =>
        /\ ResolvedFormat \in {Some(<<"object">>), Some(<<"array">>)}
        /\ ~Truthy(ResolvedSchema)

----------------------------------------------------------------------------
(* Placeholders in the content of a source. *)

\* The first n and the last n elements of a sequence.
FirstOf(s, n) == SubSeq(s, 1, n)
LastOf(s, n) == SubSeq(s, Len(s) - n + 1, Len(s))

\* C27: a placeholder in the content of a file or of a URL is no variable of
\* the template: no question asks for it, nothing is substituted for it and
\* the content is in the final prompt as it was retrieved; the template alone
\* is scanned and substituted, before the context is appended.
C27_ContentIsNotScanned ==
    /\ AskedNames \subseteq NamesOf(extractVariables(prompt))
    /\ finalPrompt # None =>
          /\ replaced = replaceVariables(prompt, options.vars)
          /\ Len(finalPrompt[1]) >= Len(replaced) + Len(EntriesFrom(1))
          /\ FirstOf(finalPrompt[1], Len(replaced)) = replaced
          /\ LastOf(finalPrompt[1], Len(EntriesFrom(1))) = EntriesFrom(1)

\* A file that holds {{a}} is the context of a template whose own {{a}} has
\* been given the value V: the file is in the final prompt as it is.
C27_Witness ==
    /\ finalPrompt # None
    /\ prompt = <<"x">> \o Bare(A)
    /\ options.vars = <<[key |-> A, value |-> <<"V">>]>>
    /\ options.files = << <<"a.txt">> >> /\ options.urls = <<>>
    /\ contents[<<"a.txt">>] = Some(Bare(A))
    /\ events = <<>>
    /\ finalPrompt[1] = <<"x", "V", "\n", "\n">> \o LabelOfOneSource
                          \o <<"\n">> \o SourcePrefix \o <<"a.txt", "\n">> \o Bare(A)

----------------------------------------------------------------------------
(* The start of the prompt command: every combination of an argument and   *)
(* of what is piped into the process, up to the choice of the raw prompt.   *)

\* The argument: absent, empty or a text.
ObtainArguments == {None, Some(<<>>), Some(<<"x">>), Some(Bare(A))}

\* stdin: a terminal, or a stream that is empty, blank or holds a text.
ObtainStdin ==
    {None, Some(<<>>), Some(<<" ", "\n">>), Some(<<"y">>), Some(<<"y", "\n">>),
     Some(<<" ", "y", "\n", "z", "\n", "\n">>)}

ObtainInit ==
    /\ pc = "prompt:stdin"
    /\ presetContent = NoPreset
    /\ promptArgument \in ObtainArguments
    /\ stdin \in ObtainStdin
    /\ stdinContent = None
    /\ prompt = <<>>
    /\ argv \in RunInvocations
    /\ env = [NoEnv EXCEPT !.HEYI_API_KEY = Some(<<"K">>)]
    /\ flags = ParseOptions(argv, DefaultFlags(env))
    /\ options = NoOptions
    /\ error = None
    /\ variables = <<>> /\ extracted = <<>> /\ undefinedVars = <<>> /\ replaced = <<>>
    /\ BuildAtRest /\ AskAtRest /\ FetchAtRest /\ OutputAtRest

ObtainNext ==
    \/ ReadStdin
    \/ RequirePrompt
    \/ BuildOptionsFromFlags
    \/ ChooseRawPrompt
    \/ CatchError

SpecObtain == ObtainInit /\ [][ObtainNext]_vars

\* C28: in a run of the prompt command that has passed the check of lines
\* 182-184, the raw template is a string that is not empty: the argument when
\* one is given, the content of stdin otherwise, whatever the argument
\* (absent, empty, a text) and whatever stdin (absent, empty, a text).
C28_RawTemplateNonEmpty ==
    pc = "findUndefined" =>
        /\ prompt # <<>>
        /\ prompt = IF Truthy(promptArgument) THEN promptArgument[1] ELSE stdinContent[1]

====
